---- MODULE Spec2Model ----
(***************************************************************************)
(* Model of the coordinate-frame crate: the CoordinateFrameType catalog,   *)
(* the CoordinateFrame derive macro (what process_unit_enum generates for  *)
(* every variant) and the SaturatingNeg scalar trait.                      *)
(*                                                                         *)
(* Identifiers and axis names are sequences of one-character strings, so   *)
(* that splitting a variant name, lower-casing it and building the flipped *)
(* name are computed the way the macro computes them.                      *)
(***************************************************************************)
EXTENDS Integers, Sequences, FiniteSets, TLC

(* ------------------------------ bounds --------------------------------- *)

\* Largest small scalar used as a constructor argument (next to MIN, MAX).
MaxInput == 3

\* Largest small scalar a conversion chain starts from (next to the
\* boundary values MIN, MIN + 1 and MAX).
MaxChainInput == 0

\* Number of conversion / flip operations applied to one coordinate.
MaxSteps == 2

(* --------------------------- scalar type T ----------------------------- *)

\* Width in bits of the scalar type: i8, the first SaturatingNeg integer.
Width == 8

RECURSIVE Pow2(_)
Pow2(n) == IF n = 0 THEN 1 ELSE 2 * Pow2(n - 1)

MIN == -Pow2(Width - 1)
MAX == Pow2(Width - 1) - 1
Scalar == MIN..MAX

\* A wrapping negation (two's complement): what a plain `-self` would do.
wrapping_neg(v) == ((MAX + 1 - v) % Pow2(Width)) - (MAX + 1)

\* <iN as SaturatingNeg>::saturating_neg delegates to the inherent
\* iN::saturating_neg, i.e. 0 - self clamped into MIN..MAX.
saturating_neg(v) ==
    LET r == 0 - v
    IN  IF r > MAX THEN MAX ELSE IF r < MIN THEN MIN ELSE r

(* --------------------------- the catalog ------------------------------- *)

\* enum CoordinateFrameType, in declaration order, with its discriminants.
Variants ==
   <<
      [name |-> <<"N","o","r","t","h","E","a","s","t","D","o","w","n">>, value |-> 0],
      [name |-> <<"N","o","r","t","h","E","a","s","t","U","p">>, value |-> 1],
      [name |-> <<"N","o","r","t","h","W","e","s","t","D","o","w","n">>, value |-> 2],
      [name |-> <<"N","o","r","t","h","W","e","s","t","U","p">>, value |-> 3],
      [name |-> <<"N","o","r","t","h","D","o","w","n","E","a","s","t">>, value |-> 4],
      [name |-> <<"N","o","r","t","h","D","o","w","n","W","e","s","t">>, value |-> 5],
      [name |-> <<"N","o","r","t","h","U","p","E","a","s","t">>, value |-> 6],
      [name |-> <<"N","o","r","t","h","U","p","W","e","s","t">>, value |-> 7],
      [name |-> <<"E","a","s","t","N","o","r","t","h","D","o","w","n">>, value |-> 8],
      [name |-> <<"E","a","s","t","N","o","r","t","h","U","p">>, value |-> 9],
      [name |-> <<"E","a","s","t","S","o","u","t","h","D","o","w","n">>, value |-> 10],
      [name |-> <<"E","a","s","t","S","o","u","t","h","U","p">>, value |-> 11],
      [name |-> <<"E","a","s","t","D","o","w","n","N","o","r","t","h">>, value |-> 12],
      [name |-> <<"E","a","s","t","D","o","w","n","S","o","u","t","h">>, value |-> 13],
      [name |-> <<"E","a","s","t","U","p","N","o","r","t","h">>, value |-> 14],
      [name |-> <<"E","a","s","t","U","p","S","o","u","t","h">>, value |-> 15],
      [name |-> <<"S","o","u","t","h","E","a","s","t","D","o","w","n">>, value |-> 16],
      [name |-> <<"S","o","u","t","h","E","a","s","t","U","p">>, value |-> 17],
      [name |-> <<"S","o","u","t","h","W","e","s","t","D","o","w","n">>, value |-> 18],
      [name |-> <<"S","o","u","t","h","W","e","s","t","U","p">>, value |-> 19],
      [name |-> <<"S","o","u","t","h","D","o","w","n","E","a","s","t">>, value |-> 20],
      [name |-> <<"S","o","u","t","h","D","o","w","n","W","e","s","t">>, value |-> 21],
      [name |-> <<"S","o","u","t","h","U","p","E","a","s","t">>, value |-> 22],
      [name |-> <<"S","o","u","t","h","U","p","W","e","s","t">>, value |-> 23],
      [name |-> <<"W","e","s","t","N","o","r","t","h","D","o","w","n">>, value |-> 24],
      [name |-> <<"W","e","s","t","N","o","r","t","h","U","p">>, value |-> 25],
      [name |-> <<"W","e","s","t","S","o","u","t","h","D","o","w","n">>, value |-> 26],
      [name |-> <<"W","e","s","t","S","o","u","t","h","U","p">>, value |-> 27],
      [name |-> <<"W","e","s","t","D","o","w","n","N","o","r","t","h">>, value |-> 28],
      [name |-> <<"W","e","s","t","D","o","w","n","S","o","u","t","h">>, value |-> 29],
      [name |-> <<"W","e","s","t","U","p","N","o","r","t","h">>, value |-> 30],
      [name |-> <<"W","e","s","t","U","p","S","o","u","t","h">>, value |-> 31],
      [name |-> <<"D","o","w","n","N","o","r","t","h","E","a","s","t">>, value |-> 32],
      [name |-> <<"D","o","w","n","N","o","r","t","h","W","e","s","t">>, value |-> 33],
      [name |-> <<"D","o","w","n","E","a","s","t","N","o","r","t","h">>, value |-> 34],
      [name |-> <<"D","o","w","n","E","a","s","t","S","o","u","t","h">>, value |-> 35],
      [name |-> <<"D","o","w","n","S","o","u","t","h","E","a","s","t">>, value |-> 36],
      [name |-> <<"D","o","w","n","S","o","u","t","h","W","e","s","t">>, value |-> 37],
      [name |-> <<"D","o","w","n","W","e","s","t","N","o","r","t","h">>, value |-> 38],
      [name |-> <<"D","o","w","n","W","e","s","t","S","o","u","t","h">>, value |-> 39],
      [name |-> <<"U","p","N","o","r","t","h","E","a","s","t">>, value |-> 40],
      [name |-> <<"U","p","N","o","r","t","h","W","e","s","t">>, value |-> 41],
      [name |-> <<"U","p","E","a","s","t","N","o","r","t","h">>, value |-> 42],
      [name |-> <<"U","p","E","a","s","t","S","o","u","t","h">>, value |-> 43],
      [name |-> <<"U","p","S","o","u","t","h","E","a","s","t">>, value |-> 44],
      [name |-> <<"U","p","S","o","u","t","h","W","e","s","t">>, value |-> 45],
      [name |-> <<"U","p","W","e","s","t","N","o","r","t","h">>, value |-> 46],
      [name |-> <<"U","p","W","e","s","t","S","o","u","t","h">>, value |-> 47],
      [name |-> <<"O","t","h","e","r">>, value |-> 48],
      [name |-> <<"U","n","d","e","f","i","n","e","d">>, value |-> 255]
   >>

VariantIds == DOMAIN Variants

\* The variant with the given identifier (0 when the catalog has none).
VariantNamed(ident) ==
    IF \E i \in VariantIds : Variants[i].name = ident
    THEN CHOOSE i \in VariantIds : Variants[i].name = ident
    ELSE 0

Other == VariantNamed(<<"O","t","h","e","r">>)
Undefined == VariantNamed(<<"U","n","d","e","f","i","n","e","d">>)

NorthEastDown == VariantNamed(<<"N","o","r","t","h","E","a","s","t","D","o","w","n">>)
NorthEastUp == VariantNamed(<<"N","o","r","t","h","E","a","s","t","U","p">>)
EastNorthUp == VariantNamed(<<"E","a","s","t","N","o","r","t","h","U","p">>)
SouthWestUp == VariantNamed(<<"S","o","u","t","h","W","e","s","t","U","p">>)

\* The variants process_unit_enum generates a coordinate type for.
RealFrames == { i \in VariantIds : i # Other /\ i # Undefined }

(* ------------------------------ axes ----------------------------------- *)

north == <<"n","o","r","t","h">>
south == <<"s","o","u","t","h">>
east == <<"e","a","s","t">>
west == <<"w","e","s","t">>
up == <<"u","p">>
down == <<"d","o","w","n">>

LATERAL == <<east, west>>
LONGITUDINAL == <<north, south>>
VERTICAL == <<down, up>>
MUTUALLY_EXCLUSIVE == <<LATERAL, LONGITUDINAL, VERTICAL>>

Axes == {north, south, east, west, up, down}

contains(seq, x) == \E k \in DOMAIN seq : seq[k] = x

\* Iterator::find / match arms: the first of the matching positions (0: none).
first_index(matching) ==
    IF matching = {} THEN 0
    ELSE CHOOSE k \in matching : \A m \in matching : k <= m

UPPERCASE == <<"A","B","C","D","E","F","G","H","I","J","K","L","M",
               "N","O","P","Q","R","S","T","U","V","W","X","Y","Z">>
LOWERCASE == <<"a","b","c","d","e","f","g","h","i","j","k","l","m",
               "n","o","p","q","r","s","t","u","v","w","x","y","z">>

is_uppercase(c) == contains(UPPERCASE, c)

\* A lower-casing that was forgotten.
to_lowercase_noop(s) == s

to_lowercase(s) ==
    [k \in DOMAIN s |->
        IF is_uppercase(s[k])
        THEN LOWERCASE[CHOOSE m \in DOMAIN UPPERCASE : UPPERCASE[m] = s[k]]
        ELSE s[k]]

Panic == <<"p","a","n","i","c">>

RECURSIVE split_loop(_, _, _, _)
split_loop(input, i, start, components) ==
    IF i > Len(input)
    THEN Append(components, to_lowercase(SubSeq(input, start, Len(input))))
    ELSE IF is_uppercase(input[i]) /\ i # 1
         THEN split_loop(input, i + 1, i,
                  Append(components, to_lowercase(SubSeq(input, start, i - 1))))
         ELSE split_loop(input, i + 1, start, components)

\* A split that keeps the first three components of a longer name.
split_first_three(input) ==
    LET parts == split_loop(input, 1, 1, <<>>)
    IN  IF Len(parts) >= 3 THEN SubSeq(parts, 1, 3) ELSE Panic

\* Splits an UpperCamelCase identifier at its upper-case letters; anything
\* but three components makes the macro panic.
split_variant_name_into_components(input) ==
    LET components == split_loop(input, 1, 1, <<>>)
    IN  IF Len(components) = 3 THEN components ELSE Panic

\* A capitalize that hands the axis name back as it came.
capitalize_as_is(axis) == axis

capitalize(axis) ==
    CASE axis = north -> <<"N","o","r","t","h">>
      [] axis = south -> <<"S","o","u","t","h">>
      [] axis = east -> <<"E","a","s","t">>
      [] axis = west -> <<"W","e","s","t">>
      [] axis = up -> <<"U","p">>
      [] axis = down -> <<"D","o","w","n">>
      [] OTHER -> Panic

(* ------------------- what the macro generates per frame ----------------- *)

components ==
    [F \in RealFrames |-> split_variant_name_into_components(Variants[F].name)]

\* A partner lookup that leaves the vertical axis as it is.
opposite_in_pair_keep_vertical(component) ==
    IF component = up THEN up
    ELSE IF component = down THEN down
    ELSE IF component = north THEN south
    ELSE IF component = south THEN north
    ELSE IF component = east THEN west
    ELSE IF component = west THEN east
    ELSE Panic

\* The partner of a component inside its MUTUALLY_EXCLUSIVE pair.
opposite_in_pair(component) ==
    LET p == first_index({k \in DOMAIN MUTUALLY_EXCLUSIVE :
                              contains(MUTUALLY_EXCLUSIVE[k], component)})
    IN  IF p = 0 THEN Panic
        ELSE LET pair == MUTUALLY_EXCLUSIVE[p]
                 o == first_index({k \in DOMAIN pair : pair[k] # component})
             IN  IF o = 0 THEN Panic ELSE pair[o]

opposing_direction ==
    [F \in RealFrames |-> [k \in 1..3 |-> opposite_in_pair(components[F][k])]]

\* The axis-named getters the macro puts into impl F: a native one per
\* component (self.0[i]) and a derived one per opposite of a component
\* (self.<component>().saturating_neg()).
methods ==
    [F \in RealFrames |->
        [name \in Axes |->
            LET n == first_index({k \in 1..3 : components[F][k] = name})
                d == first_index({k \in 1..3 : opposing_direction[F][k] = name})
            IN  IF n # 0 THEN [kind |-> "native", index |-> n]
                ELSE IF d # 0 THEN [kind |-> "derived", index |-> d]
                ELSE [kind |-> "none", index |-> 0]]]

\* A constructor that stores its arguments back to front.
new_reversed(first, second, third) == <<third, second, first>>

\* Self([first, second, third])
new(first, second, third) == <<first, second, third>>

\* Getters whose derived form forgets to negate.
accessor_unsigned(F, name, data) ==
    LET m == methods[F][name]
    IN  IF m.kind = "none" THEN Panic ELSE data[m.index]

\* The getter `name` of frame F called on an instance holding data.
accessor(F, name, data) ==
    LET m == methods[F][name]
    IN  IF m.kind = "native" THEN data[m.index]
        ELSE IF m.kind = "derived" THEN saturating_neg(data[m.index])
        ELSE Panic

\* A conversion that forgets the sign change of derived components.
from_unsigned(A, B, data) ==
    new(data[methods[A][components[B][1]].index],
        data[methods[A][components[B][2]].index],
        data[methods[A][components[B][3]].index])

\* impl From<A<T>> for B<T>, generated for every other real variant B.
\* Which frames get the specialised to_ned (pub const fn, T: Copy only):
\* variant_name != "NorthEastDown" and the components contain north, east
\* and down. The others get the general form, bounded by SaturatingNeg.
to_ned_const ==
    [F \in RealFrames |->
        /\ Variants[F].name # <<"N","o","r","t","h","E","a","s","t","D","o","w","n">>
        /\ contains(components[F], north)
        /\ contains(components[F], east)
        /\ contains(components[F], down)]

\* Likewise for to_enu: variant_name != "EastNorthUp" and the components
\* contain east, north and up.
to_enu_const ==
    [F \in RealFrames |->
        /\ Variants[F].name # <<"E","a","s","t","N","o","r","t","h","U","p">>
        /\ contains(components[F], east)
        /\ contains(components[F], north)
        /\ contains(components[F], up)]

\* A to_ned that hands its readings to the constructor in east-north order.
to_ned_east_first(F, data) ==
    LET n == accessor(F, north, data)
        e == accessor(F, east, data)
        d == accessor(F, down, data)
    IN  new(e, n, d)

\* to_ned: the const arm and the general arm emit the same body and differ
\* only in the bounds on T.
to_ned(F, data) ==
    LET n == accessor(F, north, data)
        e == accessor(F, east, data)
        d == accessor(F, down, data)
    IN  new(n, e, d)

\* to_enu, likewise.
to_enu(F, data) ==
    LET e == accessor(F, east, data)
        n == accessor(F, north, data)
        u == accessor(F, up, data)
    IN  new(e, n, u)

from(A, B, data) ==
    new(accessor(A, components[B][1], data),
        accessor(A, components[B][2], data),
        accessor(A, components[B][3], data))

flipped_name ==
    [F \in RealFrames |->
        capitalize(opposing_direction[F][1])
            \o capitalize(opposing_direction[F][2])
            \o capitalize(opposing_direction[F][3])]

\* The type flip_frame returns: the catalog frame called flipped_name.
flipped_ident == [F \in RealFrames |-> VariantNamed(flipped_name[F])]

\* A flip that only relabels the frame and keeps the components.
flip_frame_relabel(F, data) == data

\* flip_frame: (*self).into()
flip_frame(F, data) == from(F, flipped_ident[F], data)

(* ----------------------------- handedness ------------------------------ *)

axis_vec(axis) ==
    CASE axis = north -> <<0, 1, 0>>
      [] axis = south -> <<0, -1, 0>>
      [] axis = east -> <<1, 0, 0>>
      [] axis = west -> <<-1, 0, 0>>
      [] axis = up -> <<0, 0, 1>>
      [] axis = down -> <<0, 0, -1>>

\* Base vectors written north-first, with the first two entries exchanged.
axis_def_t_north_first(axis) ==
    CASE axis = north -> <<1, 0, 0>>
      [] axis = south -> <<-1, 0, 0>>
      [] axis = east -> <<0, 1, 0>>
      [] axis = west -> <<0, -1, 0>>
      [] axis = up -> <<0, 0, 1>>
      [] axis = down -> <<0, 0, -1>>

\* The array literal axis_def_t emits, with T::zero() = 0, T::one() = 1 and
\* T::one().neg() = -1.
axis_def_t(axis) ==
    CASE axis = north -> <<0, 1, 0>>
      [] axis = south -> <<0, -1, 0>>
      [] axis = east -> <<1, 0, 0>>
      [] axis = west -> <<-1, 1, 0>>
      [] axis = up -> <<0, 0, 1>>
      [] axis = down -> <<0, 0, -1>>

\* x_axis(), y_axis(), z_axis() of frame F: #x_axis_vec, #y_axis_vec, #z_axis_vec.
base_axis(F, i) == axis_def_t(components[F][i])

\* A cross product with the operands of the first component's products mixed up.
cross_slip(a, b) ==
    << a[2] * b[3] - a[3] * b[2],
       a[1] * b[3] - a[3] * b[1],
       a[1] * b[2] - a[2] * b[1] >>

cross(a, b) ==
    << a[2] * b[3] - a[3] * b[2],
       a[3] * b[1] - a[1] * b[3],
       a[1] * b[2] - a[2] * b[1] >>

abs(x) == IF x < 0 THEN -x ELSE x

\* EPSILON is 1e-6: |d| < EPSILON is |d| * EpsilonInverse < 1.
EpsilonInverse == 1000000

vectors_equal(v1, v2) ==
    /\ abs(v1[1] - v2[1]) * EpsilonInverse < 1
    /\ abs(v1[2] - v2[2]) * EpsilonInverse < 1
    /\ abs(v1[3] - v2[3]) * EpsilonInverse < 1

is_right_handed(first, second, third) ==
    vectors_equal(cross(axis_vec(first), axis_vec(second)), axis_vec(third))

\* The literal the macro bakes into right_handed() of each frame.
right_handed ==
    [F \in RealFrames |->
        is_right_handed(components[F][1], components[F][2], components[F][3])]

\* The marker trait implemented for each frame: RightHanded if
\* right_handed, LeftHanded otherwise.
handedness_impl ==
    [F \in RealFrames |-> IF right_handed[F] THEN "RightHanded" ELSE "LeftHanded"]

(* ------------------------ the enum and its u8 code ---------------------- *)

Ok(v) == [tag |-> "Ok", variant |-> v]
ErrUnknownVariant == [tag |-> "Err", variant |-> 0]

\* A code taken from the position in the declaration instead of the discriminant.
into_u8_position(v) == v - 1

\* impl From<CoordinateFrameType> for u8: value as u8.
into_u8(v) == Variants[v].value

\* A parser whose fallback arm answers with the #[default] variant.
try_from_default(value) ==
    LET arm == first_index({k \in DOMAIN Variants : Variants[k].value = value})
    IN  IF arm # 0 THEN Ok(arm) ELSE Ok(NorthEastDown)

\* A parser whose arms are pushed for the real frames only.
try_from_real(value) ==
    LET arm == first_index({k \in RealFrames : Variants[k].value = value})
    IN  IF arm # 0 THEN Ok(arm) ELSE ErrUnknownVariant

\* impl TryFrom<u8>: one arm per variant in declaration order, then `_`.
try_from(value) ==
    LET arm == first_index({k \in DOMAIN Variants : Variants[k].value = value})
    IN  IF arm # 0 THEN Ok(arm) ELSE ErrUnknownVariant

(* ------------------------------- state --------------------------------- *)

VARIABLES
    args,     \* the inputs: a frame type and the three constructor arguments
    self,     \* the coordinate instance (NoCoord before it is constructed)
    ops,      \* the operations that produced self, oldest first
    call,     \* the last method called on self (NoCall when none)
    ret,      \* what that method returned
    enumv,    \* a CoordinateFrameType value (0 when none)
    code,     \* a u8 code (-1 when none)
    parsed    \* the result of parsing code (NoResult when none)

vars == <<args, self, ops, call, ret, enumv, code, parsed>>

NoCoord == [frame |-> 0, data |-> <<>>]
NoCall == [method |-> "", arg |-> 0]
NoRet == "none"
NoResult == [tag |-> "none", variant |-> 0]

Inputs == {MIN, MAX} \cup (0..MaxInput)
ChainInputs == {MIN, MIN + 1, MAX} \cup (0..MaxChainInput)

Coord(F, data) == [frame |-> F, data |-> data]

ordinal_idle == enumv = 0 /\ code = -1 /\ parsed = NoResult

(* -------------------- Spec: methods of one coordinate ------------------- *)

Init ==
    /\ args \in [frame : RealFrames, v : Inputs \X Inputs \X Inputs]
    /\ self = NoCoord
    /\ ops = <<>>
    /\ call = NoCall
    /\ ret = NoRet
    /\ ordinal_idle

\* F::new(v0, v1, v2)
New ==
    /\ self = NoCoord
    /\ self' = Coord(args.frame, new(args.v[1], args.v[2], args.v[3]))
    /\ ops' = <<"new">>
    /\ UNCHANGED <<args, call, ret, enumv, code, parsed>>

\* self.north(), self.south(), ...: native or derived, as generated for the frame.
CallAxis(name) ==
    /\ self # NoCoord
    /\ call = NoCall
    /\ call' = [method |-> "axis", arg |-> name]
    /\ ret' = accessor(self.frame, name, self.data)
    /\ UNCHANGED <<args, self, ops, enumv, code, parsed>>

\* self.x(), self.y(), self.z(): self.0[0], self.0[1], self.0[2]
CallXYZ(i) ==
    /\ self # NoCoord
    /\ call = NoCall
    /\ call' = [method |-> "xyz", arg |-> i]
    /\ ret' = self.data[i]
    /\ UNCHANGED <<args, self, ops, enumv, code, parsed>>

\* self.right_handed()
CallRightHanded ==
    /\ self # NoCoord
    /\ call = NoCall
    /\ call' = [method |-> "right_handed", arg |-> 0]
    /\ ret' = right_handed[self.frame]
    /\ UNCHANGED <<args, self, ops, enumv, code, parsed>>

\* B::from(self) for another real frame B
CallFrom(B) ==
    /\ self # NoCoord
    /\ call = NoCall
    /\ B # self.frame
    /\ call' = [method |-> "from", arg |-> B]
    /\ ret' = Coord(B, from(self.frame, B, self.data))
    /\ UNCHANGED <<args, self, ops, enumv, code, parsed>>

\* self.flip_frame()
CallFlipFrame ==
    /\ self # NoCoord
    /\ call = NoCall
    /\ call' = [method |-> "flip_frame", arg |-> 0]
    /\ ret' = Coord(flipped_ident[self.frame], flip_frame(self.frame, self.data))
    /\ UNCHANGED <<args, self, ops, enumv, code, parsed>>

\* self.to_ned()
CallToNed ==
    /\ self # NoCoord
    /\ call = NoCall
    /\ call' = [method |-> "to_ned", arg |-> 0]
    /\ ret' = Coord(NorthEastDown, to_ned(self.frame, self.data))
    /\ UNCHANGED <<args, self, ops, enumv, code, parsed>>

\* self.to_enu()
CallToEnu ==
    /\ self # NoCoord
    /\ call = NoCall
    /\ call' = [method |-> "to_enu", arg |-> 0]
    /\ ret' = Coord(EastNorthUp, to_enu(self.frame, self.data))
    /\ UNCHANGED <<args, self, ops, enumv, code, parsed>>

Next ==
    \/ New
    \/ \E name \in Axes : CallAxis(name)
    \/ \E i \in 1..3 : CallXYZ(i)
    \/ CallRightHanded
    \/ \E B \in RealFrames : CallFrom(B)
    \/ CallFlipFrame
    \/ CallToNed
    \/ CallToEnu

Spec == Init /\ [][Next]_vars

(* ---------------- SpecChain: chains of conversions and flips ------------ *)

InitChain ==
    /\ args \in [frame : RealFrames,
                 v : ChainInputs \X ChainInputs \X ChainInputs]
    /\ self = Coord(args.frame, new(args.v[1], args.v[2], args.v[3]))
    /\ ops = <<>>
    /\ call = NoCall
    /\ ret = NoRet
    /\ ordinal_idle

\* let self: B<_> = self.into();
ChainFrom(B) ==
    /\ Len(ops) < MaxSteps
    /\ B # self.frame
    /\ self' = Coord(B, from(self.frame, B, self.data))
    /\ ops' = Append(ops, "from")
    /\ UNCHANGED <<args, call, ret, enumv, code, parsed>>

\* let self = self.flip_frame();
ChainFlipFrame ==
    /\ Len(ops) < MaxSteps
    /\ self' = Coord(flipped_ident[self.frame], flip_frame(self.frame, self.data))
    /\ ops' = Append(ops, "flip_frame")
    /\ UNCHANGED <<args, call, ret, enumv, code, parsed>>

NextChain ==
    \/ \E B \in RealFrames : ChainFrom(B)
    \/ ChainFlipFrame

SpecChain == InitChain /\ [][NextChain]_vars

(* ------------- SpecAxes: what is fixed by the frame type alone ---------- *)

InitAxes ==
    /\ args \in [frame : RealFrames, v : {<<>>}]
    /\ self = NoCoord
    /\ ops = <<>>
    /\ call = NoCall
    /\ ret = NoRet
    /\ ordinal_idle

\* The macro splits the variant's name into its components.
SplitVariantName ==
    /\ call = NoCall
    /\ call' = [method |-> "split_variant_name_into_components", arg |-> 0]
    /\ ret' = components[args.frame]
    /\ UNCHANGED <<args, self, ops, enumv, code, parsed>>

\* F::x_axis(), F::y_axis(), F::z_axis() for i = 1, 2, 3
CallBaseAxis(i) ==
    /\ call = NoCall
    /\ call' = [method |-> "base_axis", arg |-> i]
    /\ ret' = base_axis(args.frame, i)
    /\ UNCHANGED <<args, self, ops, enumv, code, parsed>>

\* The return type of F::flip_frame
FlipTarget ==
    /\ call = NoCall
    /\ call' = [method |-> "flipped_ident", arg |-> 0]
    /\ ret' = flipped_ident[args.frame]
    /\ UNCHANGED <<args, self, ops, enumv, code, parsed>>

\* What the macro fixes about the handedness of F: the literal returned by
\* right_handed() and the marker trait.
Handedness ==
    /\ call = NoCall
    /\ call' = [method |-> "handedness", arg |-> 0]
    /\ ret' = [right_handed |-> right_handed[args.frame],
               marker |-> handedness_impl[args.frame]]
    /\ UNCHANGED <<args, self, ops, enumv, code, parsed>>

NextAxes ==
    \/ SplitVariantName
    \/ \E i \in 1..3 : CallBaseAxis(i)
    \/ FlipTarget
    \/ Handedness

SpecAxes == InitAxes /\ [][NextAxes]_vars

(* --------- SpecInterop: slices, arrays and tuples in and out ------------ *)

\* The longest slice handed to from_slice.
MaxSliceLen == 4

SliceValues == {MIN, 0, MAX}
Slices == UNION {[1..n -> SliceValues] : n \in 0..MaxSliceLen}

LengthMismatch == "The provided slice must have length 3"
NoImpl == "the trait From is not implemented for a tuple"

Array(items) == [kind |-> "array", items |-> items]
Tuple(items) == [kind |-> "tuple", items |-> items]

\* A from_slice that only asks for enough elements.
from_slice_at_least(vec) ==
    IF Len(vec) < 3
    THEN [panic |-> LengthMismatch, value |-> <<>>]
    ELSE LET z == vec[3]
             y == vec[2]
             x == vec[1]
         IN  [panic |-> "", value |-> <<x, y, z>>]

\* from_slice: assert_eq!(vec.len(), 3, ..), then z, y, x are cloned and
\* stored as [x, y, z].
from_slice(vec) ==
    IF Len(vec) # 3
    THEN [panic |-> LengthMismatch, value |-> <<>>]
    ELSE LET z == vec[3]
             y == vec[2]
             x == vec[1]
         IN  [panic |-> "", value |-> <<x, y, z>>]

\* from_array and From<[T; 3]>: Self(vec)
from_array(vec) == vec

\* A tuple built back to front.
into_tuple_reversed(data) ==
    LET x == data[1]
        y == data[2]
        z == data[3]
    IN  <<z, y, x>>

\* From<V<T>> for (T, T, T): let [x, y, z] = value.0; (x, y, z)
into_tuple(data) ==
    LET x == data[1]
        y == data[2]
        z == data[3]
    IN  <<x, y, z>>

\* From<V<T>> for [T; 3]: value.0
into_array(data) == data

InitInterop ==
    /\ args \in [frame : RealFrames, v : Slices]
    /\ self = NoCoord
    /\ ops = <<>>
    /\ call = NoCall
    /\ ret = NoRet
    /\ ordinal_idle

\* F::from_slice(&args.v)
FromSlice ==
    /\ ops = <<>>
    /\ ops' = <<"from_slice">>
    /\ LET r == from_slice(args.v)
       IN  IF r.panic # ""
           THEN ret' = r.panic /\ self' = self
           ELSE ret' = ret /\ self' = Coord(args.frame, r.value)
    /\ UNCHANGED <<args, call, enumv, code, parsed>>

\* F::from_array(args.v); the argument type [T; 3] fixes the length.
FromArray ==
    /\ ops = <<>>
    /\ Len(args.v) = 3
    /\ ops' = <<"from_array">>
    /\ self' = Coord(args.frame, from_array(args.v))
    /\ UNCHANGED <<args, call, ret, enumv, code, parsed>>

\* F::from(args.v) for an array args.v
FromArrayImpl ==
    /\ ops = <<>>
    /\ Len(args.v) = 3
    /\ ops' = <<"from_array_impl">>
    /\ self' = Coord(args.frame, from_array(args.v))
    /\ UNCHANGED <<args, call, ret, enumv, code, parsed>>

\* F::from(args.v) for a tuple args.v: no such impl is generated, the call
\* is rejected and no coordinate exists.
FromTupleImpl ==
    /\ ops = <<>>
    /\ Len(args.v) = 3
    /\ ops' = <<"from_tuple_impl">>
    /\ ret' = NoImpl
    /\ UNCHANGED <<args, self, call, enumv, code, parsed>>

\* <[T; 3]>::from(self)
IntoArray ==
    /\ self # NoCoord
    /\ call = NoCall
    /\ call' = [method |-> "into_array", arg |-> 0]
    /\ ret' = Array(into_array(self.data))
    /\ UNCHANGED <<args, self, ops, enumv, code, parsed>>

\* <(T, T, T)>::from(self)
IntoTuple ==
    /\ self # NoCoord
    /\ call = NoCall
    /\ call' = [method |-> "into_tuple", arg |-> 0]
    /\ ret' = Tuple(into_tuple(self.data))
    /\ UNCHANGED <<args, self, ops, enumv, code, parsed>>

NextInterop ==
    \/ FromSlice
    \/ FromArray
    \/ FromArrayImpl
    \/ FromTupleImpl
    \/ IntoArray
    \/ IntoTuple

SpecInterop == InitInterop /\ [][NextInterop]_vars

(* ------------- SpecArith: the arithmetic operator impls ---------------- *)

\* The largest small operand; MIN and MAX are always among the operands.
MaxOperand == 1

Operands == {MIN, MAX} \cup (-1..MaxOperand)
RhsOperands == {-1, 0, 1}

\* The outcome of one scalar operation: it panicked, or it has a value.
Value(n) == [panic |-> FALSE, value |-> n]
ScalarPanic == [panic |-> TRUE, value |-> 0]

\* Two's complement wrap-around into the scalar's range.
wrap(n) == ((n - MIN) % Pow2(Width)) + MIN

\* An integer result of +, - or * on the scalar type: in range it is the
\* value; out of range it panics when the build checks overflow and wraps
\* when it does not.
overflowing(n, overflow_checks) ==
    IF n \in Scalar THEN Value(n)
    ELSE IF overflow_checks THEN ScalarPanic
    ELSE Value(wrap(n))

\* Integer division of the scalar type: rounds toward zero, panics on a
\* zero divisor and on MIN / -1 in every build.
truncating_div(a, b) ==
    IF b = 0 \/ (a = MIN /\ b = -1) THEN ScalarPanic
    ELSE LET q == abs(a) \div abs(b)
         IN  Value(IF (a < 0) = (b < 0) THEN q ELSE 0 - q)

\* x + y, x - y, x * y, x / y on the scalar type
scalar_op(op, x, y, overflow_checks) ==
    CASE op = "add" -> overflowing(x + y, overflow_checks)
      [] op = "sub" -> overflowing(x - y, overflow_checks)
      [] op = "mul" -> overflowing(x * y, overflow_checks)
      [] op = "div" -> truncating_div(x, y)

\* A panic while the operands are evaluated leaves no result.
Panicked == Coord(0, <<>>)
NoOperatorImpl == "no implementation of the operator for a coordinate right-hand side"

\* Self::new(a, b, c) over three scalar outcomes, evaluated left to right
new_checked(F, a, b, c) ==
    IF a.panic \/ b.panic \/ c.panic THEN Panicked
    ELSE Coord(F, new(a.value, b.value, c.value))

\* A coordinate operator that applies the first element of rhs throughout.
binary_coordinate_first(op, F, data, rhs, overflow_checks) ==
    LET x == data[1]
        y == data[2]
        z == data[3]
        x2 == rhs[1]
    IN  new_checked(F, scalar_op(op, x, x2, overflow_checks),
                       scalar_op(op, y, x2, overflow_checks),
                       scalar_op(op, z, x2, overflow_checks))

\* Add<V<T>> and Sub<V<T>> for V<T>: Self::new(x op x2, y op y2, z op z2)
binary_coordinate(op, F, data, rhs, overflow_checks) ==
    LET x == data[1]
        y == data[2]
        z == data[3]
        x2 == rhs[1]
        y2 == rhs[2]
        z2 == rhs[3]
    IN  new_checked(F, scalar_op(op, x, x2, overflow_checks),
                       scalar_op(op, y, y2, overflow_checks),
                       scalar_op(op, z, z2, overflow_checks))

\* Add<T>, Sub<T>, Mul<T>, Div<T> for V<T>:
\* Self::new(x op rhs.clone(), y op rhs.clone(), z op rhs)
binary_scalar(op, F, data, rhs, overflow_checks) ==
    LET x == data[1]
        y == data[2]
        z == data[3]
    IN  new_checked(F, scalar_op(op, x, rhs, overflow_checks),
                       scalar_op(op, y, rhs, overflow_checks),
                       scalar_op(op, z, rhs, overflow_checks))

ScalarOperators == {"add", "sub", "mul", "div"}
CoordinateOperators == {"add", "sub"}

InitArith ==
    /\ args \in [frame : RealFrames, v : Operands \X Operands \X Operands]
    /\ self = Coord(args.frame, new(args.v[1], args.v[2], args.v[3]))
    /\ ops = <<"new">>
    /\ call = NoCall
    /\ ret = NoRet
    /\ ordinal_idle

\* self + s, self - s, self * s, self / s for a scalar s
CallBinaryScalar(op, s, overflow_checks) ==
    /\ call.method = ""
    /\ op \in ScalarOperators
    /\ call' = [method |-> op, arg |-> [rhs |-> "scalar", value |-> s]]
    /\ ret' = binary_scalar(op, self.frame, self.data, s, overflow_checks)
    /\ UNCHANGED <<args, self, ops, enumv, code, parsed>>

\* self + r, self - r for a coordinate r of the same frame
CallBinaryCoordinate(op, r, overflow_checks) ==
    /\ call.method = ""
    /\ op \in CoordinateOperators
    /\ call' = [method |-> op, arg |-> [rhs |-> "coordinate", value |-> r]]
    /\ ret' = binary_coordinate(op, self.frame, self.data, r, overflow_checks)
    /\ UNCHANGED <<args, self, ops, enumv, code, parsed>>

\* self * r, self / r for a coordinate r: no such impl is generated and the
\* expression is rejected.
CallMissingCoordinate(op, r) ==
    /\ call.method = ""
    /\ op \in ScalarOperators \ CoordinateOperators
    /\ call' = [method |-> op, arg |-> [rhs |-> "coordinate", value |-> r]]
    /\ ret' = NoOperatorImpl
    /\ UNCHANGED <<args, self, ops, enumv, code, parsed>>

NextArith ==
    \/ \E op \in ScalarOperators : \E s \in Operands : \E overflow_checks \in BOOLEAN :
          CallBinaryScalar(op, s, overflow_checks)
    \/ \E op \in ScalarOperators : \E r \in RhsOperands \X RhsOperands \X RhsOperands :
          \E overflow_checks \in BOOLEAN : CallBinaryCoordinate(op, r, overflow_checks)
    \/ \E op \in ScalarOperators : CallMissingCoordinate(op, <<1, 1, 1>>)

SpecArith == InitArith /\ [][NextArith]_vars

(* ---------- SpecDerive: one run of the derive macro over an enum -------- *)

\* The most tokens an identifier handed to the macro is made of.
MaxTokens == 4

\* Identifiers are written as UpperCamelCase runs of tokens: the six axis
\* names and one foreign word.
foo == <<"f","o","o">>
TokenPool == Axes \cup {foo}
TokenLists == UNION {[1..n -> TokenPool] : n \in 1..MaxTokens}

upper_first(token) ==
    <<UPPERCASE[CHOOSE m \in DOMAIN LOWERCASE : LOWERCASE[m] = token[1]]>>
        \o Tail(token)

RECURSIVE concat(_)
concat(tokens) ==
    IF tokens = <<>> THEN <<>> ELSE Head(tokens) \o concat(Tail(tokens))

\* The identifier spelled by the tokens, its first letter in lower case on
\* request.
identifier(tokens, lower_first) ==
    concat([i \in DOMAIN tokens |->
               IF i = 1 /\ lower_first THEN tokens[i] ELSE upper_first(tokens[i])])

\* The enum the macro is applied to: the catalog, or the catalog with one
\* more variant.
enum_of(a) ==
    IF a.v = <<>> THEN Variants
    ELSE Append(Variants, [name |-> identifier(a.v, a.lower_first), value |-> 100])

ExpectedThree == "Expected exactly three components"
FailedPair == "Failed to identify component pair"
Unreachable == "internal error: entered unreachable code"

\* A sentinel test that knows Other only.
is_sentinel_other_only(name) == name = <<"O","t","h","e","r">>

\* variant_name == "Other" || variant_name == "Undefined"
is_sentinel(name) ==
    \/ name = <<"O","t","h","e","r">>
    \/ name = <<"U","n","d","e","f","i","n","e","d">>

\* The components of variant k of the enum; for the catalog's real frames
\* this is the table components.
split_of(enum, k) ==
    IF k \in RealFrames THEN components[k]
    ELSE split_variant_name_into_components(enum[k].name)

\* The ASCII art's choice of the axis of one direction class: the first or
\* second component if it belongs to the class, the third otherwise.
select_axis(class, c) ==
    IF contains(class, c[1]) THEN [axis |-> c[1], label |-> "x"]
    ELSE IF contains(class, c[2]) THEN [axis |-> c[2], label |-> "y"]
    ELSE [axis |-> c[3], label |-> "z"]

\* An ascii_art whose last arm of every match is a catch-all.
ascii_art_catch_all(up_down, north_south, east_west) ==
    IF up_down = up THEN
        IF north_south = north
        THEN (IF east_west = east THEN "up_east_north" ELSE "up_west_north")
        ELSE (IF east_west = east THEN "up_east_south" ELSE "up_west_south")
    ELSE
        IF north_south = north
        THEN (IF east_west = east THEN "down_east_north" ELSE "down_west_north")
        ELSE (IF east_west = east THEN "down_east_south" ELSE "down_west_south")

\* ascii_art: the picture chosen for the three axes, unreachable!() for
\* anything else.
ascii_art(up_down, north_south, east_west) ==
    IF up_down = up THEN
        IF north_south = north THEN
            IF east_west = east THEN "up_east_north"
            ELSE IF east_west = west THEN "up_west_north"
            ELSE Unreachable
        ELSE IF north_south = south THEN
            IF east_west = east THEN "up_east_south"
            ELSE IF east_west = west THEN "up_west_south"
            ELSE Unreachable
        ELSE Unreachable
    ELSE IF up_down = down THEN
        IF north_south = north THEN
            IF east_west = east THEN "down_east_north"
            ELSE IF east_west = west THEN "down_west_north"
            ELSE Unreachable
        ELSE IF north_south = south THEN
            IF east_west = east THEN "down_east_south"
            ELSE IF east_west = west THEN "down_west_south"
            ELSE Unreachable
        ELSE Unreachable
    ELSE Unreachable

Emitted(targets) == [panic |-> "", type |-> TRUE, targets |-> targets]
Skipped == [panic |-> "", type |-> FALSE, targets |-> {}]
Aborted(message) == [panic |-> message, type |-> FALSE, targets |-> {}]

\* What the closure over data_enum.variants looks at for each variant:
\* whether its name is a sentinel's and, if not, what its name splits into
\* (Panic unless that is three components).
variant_info(enum) ==
    [k \in DOMAIN enum |->
        IF is_sentinel(enum[k].name)
        THEN [sentinel |-> TRUE, components |-> <<>>]
        ELSE [sentinel |-> FALSE, components |-> split_of(enum, k)]]

\* The body of the closure for variant k: nothing for a sentinel; otherwise
\* the split, the pair lookup of each component, the From impls into every
\* other non-sentinel variant (variant names are distinct, so the other
\* variants are the other positions), and the ASCII art, each of which may
\* panic.
process_variant(info, k) ==
    IF info[k].sentinel THEN Skipped
    ELSE
      LET c == info[k].components
          others == {j \in DOMAIN info : j # k /\ ~info[j].sentinel}
      IN  IF Len(c) # 3 THEN Aborted(ExpectedThree)
          ELSE IF \E i \in 1..3 : opposite_in_pair(c[i]) = Panic
          THEN Aborted(FailedPair)
          ELSE IF \E j \in others : Len(info[j].components) # 3
          THEN Aborted(ExpectedThree)
          ELSE IF ascii_art(select_axis(VERTICAL, c).axis,
                            select_axis(LONGITUDINAL, c).axis,
                            select_axis(LATERAL, c).axis) = Unreachable
          THEN Aborted(Unreachable)
          ELSE Emitted(others)

\* process_unit_enum: the variants are processed in order and the first
\* panic aborts the expansion with nothing emitted; otherwise every
\* non-sentinel variant gets its type and its From impls.
process_unit_enum(enum) ==
    LET info == variant_info(enum)
        failed == first_index({k \in DOMAIN info : process_variant(info, k).panic # ""})
    IN  IF failed # 0
        THEN [panic |-> process_variant(info, failed).panic,
              types |-> {}, conversions |-> {}]
        ELSE LET types == {k \in DOMAIN info : process_variant(info, k).type}
             IN  [panic |-> "", types |-> types,
                  conversions |->
                      UNION {{<<k, j>> : j \in process_variant(info, k).targets} :
                                k \in types}]

InitDerive ==
    /\ args \in [frame : {0}, v : TokenLists \cup {<<>>}, lower_first : BOOLEAN]
    /\ args.v = <<>> => ~args.lower_first
    /\ args.v # <<>> => VariantNamed(identifier(args.v, args.lower_first)) = 0
    /\ self = NoCoord
    /\ ops = <<>>
    /\ call = NoCall
    /\ ret = NoRet
    /\ ordinal_idle

\* #[derive(CoordinateFrame)] on the enum
DeriveCoordinateFrame ==
    /\ call = NoCall
    /\ call' = [method |-> "derive_coordinate_frame", arg |-> 0]
    /\ ret' = process_unit_enum(enum_of(args))
    /\ UNCHANGED <<args, self, ops, enumv, code, parsed>>

NextDerive == DeriveCoordinateFrame

SpecDerive == InitDerive /\ [][NextDerive]_vars

(* -------- SpecWrite: per-axis writes next to the reading methods -------- *)

WriteValues == {MIN, 0, MAX}

\* A write that always lands in the first position.
write_first(data, i, v) == [data EXCEPT ![1] = v]

\* self.0[i] = v, and *(&mut self.0[i]) = v
write(data, i, v) == [data EXCEPT ![i] = v]

InitWrite ==
    /\ args \in [frame : RealFrames, v : WriteValues \X WriteValues \X WriteValues]
    /\ self = Coord(args.frame, new(args.v[1], args.v[2], args.v[3]))
    /\ ops = <<"new">>
    /\ call = NoCall
    /\ ret = NoRet
    /\ ordinal_idle

\* self.with_<name>(v), generated for the native axes only: works on the
\* moved-in self and returns it.
CallWith(name, v) ==
    /\ call = NoCall
    /\ methods[self.frame][name].kind = "native"
    /\ call' = [method |-> "with", arg |-> [axis |-> name, value |-> v]]
    /\ ret' = Coord(self.frame, write(self.data, methods[self.frame][name].index, v))
    /\ UNCHANGED <<args, self, ops, enumv, code, parsed>>

\* *self.<name>_mut() = v, generated for the native axes only
WriteAxisMut(name, v) ==
    /\ call = NoCall
    /\ methods[self.frame][name].kind = "native"
    /\ call' = [method |-> "axis_mut", arg |-> [axis |-> name, value |-> v]]
    /\ self' = Coord(self.frame, write(self.data, methods[self.frame][name].index, v))
    /\ ret' = v
    /\ UNCHANGED <<args, ops, enumv, code, parsed>>

\* *self.x_mut() = v, *self.y_mut() = v, *self.z_mut() = v for i = 1, 2, 3
WriteXYZMut(i, v) ==
    /\ call = NoCall
    /\ call' = [method |-> "xyz_mut", arg |-> [position |-> i, value |-> v]]
    /\ self' = Coord(self.frame, write(self.data, i, v))
    /\ ret' = v
    /\ UNCHANGED <<args, ops, enumv, code, parsed>>

NextWrite ==
    \/ \E name \in Axes : \E v \in WriteValues : CallWith(name, v)
    \/ \E name \in Axes : \E v \in WriteValues : WriteAxisMut(name, v)
    \/ \E i \in 1..3 : \E v \in WriteValues : WriteXYZMut(i, v)
    \/ \E name \in Axes : CallAxis(name)
    \/ \E i \in 1..3 : CallXYZ(i)
    \/ \E B \in RealFrames : CallFrom(B)
    \/ CallFlipFrame
    \/ CallToNed
    \/ CallToEnu

SpecWrite == InitWrite /\ [][NextWrite]_vars

(* ------ SpecWalk: conversions and flips without a bound on their number --- *)

WalkInputs == {MIN, MIN + 1, 0, MAX}

InitWalk ==
    /\ args \in [frame : RealFrames, v : WalkInputs \X WalkInputs \X WalkInputs]
    /\ self = Coord(args.frame, new(args.v[1], args.v[2], args.v[3]))
    /\ ops = <<>>
    /\ call = NoCall
    /\ ret = NoRet
    /\ ordinal_idle

\* let self: B<_> = self.into(); ops keeps the last step only.
WalkFrom(B) ==
    /\ B # self.frame
    /\ self' = Coord(B, from(self.frame, B, self.data))
    /\ ops' = <<"from">>
    /\ UNCHANGED <<args, call, ret, enumv, code, parsed>>

\* let self = self.flip_frame();
WalkFlipFrame ==
    /\ self' = Coord(flipped_ident[self.frame], flip_frame(self.frame, self.data))
    /\ ops' = <<"flip_frame">>
    /\ UNCHANGED <<args, call, ret, enumv, code, parsed>>

NextWalk ==
    \/ \E B \in RealFrames : WalkFrom(B)
    \/ WalkFlipFrame

SpecWalk == InitWalk /\ [][NextWalk]_vars

(* --------------- SpecScalar: the SaturatingNeg scalar trait ------------- *)

InitScalar ==
    /\ args \in [frame : {0}, v : {<<x>> : x \in Scalar}]
    /\ self = NoCoord
    /\ ops = <<>>
    /\ call = NoCall
    /\ ret = NoRet
    /\ ordinal_idle

\* args.v[i].saturating_neg()
CallSaturatingNeg(i) ==
    /\ call = NoCall
    /\ call' = [method |-> "saturating_neg", arg |-> i]
    /\ ret' = saturating_neg(args.v[i])
    /\ UNCHANGED <<args, self, ops, enumv, code, parsed>>

NextScalar == \E i \in DOMAIN args.v : CallSaturatingNeg(i)

SpecScalar == InitScalar /\ [][NextScalar]_vars

(* ------------------ SpecOrdinal: the enum and its u8 code --------------- *)

U8 == 0..255

InitOrdinal ==
    /\ args = [frame |-> 0, v |-> <<>>]
    /\ self = NoCoord
    /\ ops = <<>>
    /\ call = NoCall
    /\ ret = NoRet
    /\ \/ enumv \in VariantIds /\ code = -1
       \/ enumv = 0 /\ code \in U8
    /\ parsed = NoResult

\* u8::from(enumv)
IntoU8 ==
    /\ enumv # 0
    /\ code = -1
    /\ code' = into_u8(enumv)
    /\ UNCHANGED <<args, self, ops, call, ret, enumv, parsed>>

\* CoordinateFrameType::try_from(code)
TryFromU8 ==
    /\ code # -1
    /\ parsed = NoResult
    /\ parsed' = try_from(code)
    /\ UNCHANGED <<args, self, ops, call, ret, enumv, code>>

NextOrdinal ==
    \/ IntoU8
    \/ TryFromU8

SpecOrdinal == InitOrdinal /\ [][NextOrdinal]_vars

(* ============================ properties =============================== *)

\* The opposite direction of an axis, as the data model defines it.
Opposite(axis) ==
    CASE axis = north -> south
      [] axis = south -> north
      [] axis = east -> west
      [] axis = west -> east
      [] axis = up -> down
      [] axis = down -> up

HasAxis(F, axis) == \E i \in 1..3 : components[F][i] = axis

(* ------------------------------- C1 ----------------------------------- *)

\* C1 as stated: whenever a value v of frame B was converted to another frame
\* A and back to B, the result is v, for every v (components anywhere in
\* MIN..MAX).
C1_RoundTripExact ==
    (ops = <<"from", "from">> /\ self.frame = args.frame)
        => self.data = args.v

\* C1, amended: converting a value v of B to A and back to B returns v at
\* every position, except that a component equal to MIN comes back as
\* MIN + 1 when A holds the opposite of B's axis at that position; so the
\* round trip is exact for every v whose sign-flipped components are not MIN.
C1_RoundTripUpToMin ==
    [][ (ops = <<"from">> /\ ops' = <<"from", "from">>
            /\ self'.frame = args.frame)
        => \A j \in 1..3 :
              self'.data[j] =
                 IF args.v[j] = MIN
                    /\ HasAxis(self.frame, Opposite(components[args.frame][j]))
                 THEN MIN + 1
                 ELSE args.v[j] ]_vars

\* A round trip B -> A -> B has been made in which one sign-flipped component
\* was MAX (returned as it was) and another was MIN (returned as MIN + 1).
C1_Witness ==
    /\ ops = <<"from", "from">>
    /\ self.frame = args.frame
    /\ args.v = <<MAX, MIN, 0>>
    /\ self.data = <<MAX, MIN + 1, 0>>

(* ------------------------------- C2 ----------------------------------- *)

\* C2: for distinct real frames A and B and a value a of A, position j of
\* B::from(a) is a[i] when B's j-th axis is A's i-th axis and
\* saturating_neg(a[i]) when it is the opposite of A's i-th axis; so
\* NorthEastDown(1,2,3) becomes EastNorthUp(2,1,-3) and NorthEastUp(1,2,3)
\* becomes NorthEastDown(1,2,-3).
C2_PairwiseConversion ==
    call.method = "from" =>
        /\ ret.frame = call.arg
        /\ \A i \in 1..3 : \A j \in 1..3 :
              /\ components[ret.frame][j] = components[self.frame][i]
                    => ret.data[j] = self.data[i]
              /\ components[ret.frame][j] = Opposite(components[self.frame][i])
                    => ret.data[j] = saturating_neg(self.data[i])
        /\ (self = Coord(NorthEastDown, <<1, 2, 3>>) /\ call.arg = EastNorthUp)
              => ret = Coord(EastNorthUp, <<2, 1, -3>>)
        /\ (self = Coord(NorthEastUp, <<1, 2, 3>>) /\ call.arg = NorthEastDown)
              => ret = Coord(NorthEastDown, <<1, 2, -3>>)

\* NorthEastDown(1,2,3) has been converted to EastNorthUp.
C2_Witness ==
    /\ self = Coord(NorthEastDown, <<1, 2, 3>>)
    /\ call = [method |-> "from", arg |-> EastNorthUp]
    /\ ret = Coord(EastNorthUp, <<2, 1, -3>>)

(* ------------------------------- C3 ----------------------------------- *)

\* C3 as stated: after converting a value v of frame A to another frame B,
\* each of the six axes reads the same on B::from(v) as on v.
C3_MeaningPreserved ==
    call.method = "from" =>
        \A a \in Axes :
            accessor(ret.frame, a, ret.data) = accessor(self.frame, a, self.data)

\* C3, amended: each of the six axes reads the same on B::from(v) as on v,
\* except an axis a that is native in A with the component MIN while B holds
\* the opposite of a: there a reads MIN + 1 on B::from(v).
C3_MeaningPreservedUpToMin ==
    call.method = "from" =>
        \A a \in Axes :
            accessor(ret.frame, a, ret.data) =
                IF /\ HasAxis(self.frame, a)
                   /\ HasAxis(ret.frame, Opposite(a))
                   /\ accessor(self.frame, a, self.data) = MIN
                THEN MIN + 1
                ELSE accessor(self.frame, a, self.data)

\* NorthEastUp(1, 2, MIN) has been converted to NorthEastDown(1, 2, MAX):
\* north still reads 1, and up, which read MIN, now reads MIN + 1.
C3_Witness ==
    /\ call.method = "from"
    /\ self = Coord(NorthEastUp, <<1, 2, MIN>>)
    /\ ret = Coord(NorthEastDown, <<1, 2, MAX>>)
    /\ accessor(ret.frame, up, ret.data) = MIN + 1
    /\ accessor(ret.frame, north, ret.data) = 1

(* ------------------------------- C4 ----------------------------------- *)

MutuallyExclusivePairs == {{north, south}, {east, west}, {up, down}}

DerivedAccessors(F) == {a \in Axes : methods[F][a].kind = "derived"}

\* C4: on every instance of every real frame, the getter named after the
\* opposite of native axis c returns saturating_neg of the native value of c
\* (NorthEastUp(1,2,3).down() = -3, north() = 1, east() = 2), and the frame
\* has exactly three derived getters, one per mutually exclusive pair.
C4_DerivedAxisConsistency ==
    /\ call.method = "axis" =>
          /\ \A i \in 1..3 :
                call.arg = Opposite(components[self.frame][i])
                    => ret = saturating_neg(self.data[i])
          /\ self = Coord(NorthEastUp, <<1, 2, 3>>) =>
                /\ call.arg = down => ret = -3
                /\ call.arg = north => ret = 1
                /\ call.arg = east => ret = 2
    /\ self # NoCoord =>
          /\ Cardinality(DerivedAccessors(self.frame)) = 3
          /\ \A pair \in MutuallyExclusivePairs :
                Cardinality(pair \cap DerivedAccessors(self.frame)) = 1
          /\ \A i \in 1..3 :
                Opposite(components[self.frame][i]) \in DerivedAccessors(self.frame)

\* down() has been called on NorthEastUp(1,2,3) and returned -3.
C4_Witness ==
    /\ self = Coord(NorthEastUp, <<1, 2, 3>>)
    /\ call = [method |-> "axis", arg |-> down]
    /\ ret = -3

(* ------------------------------- C5 ----------------------------------- *)

\* C5: saturating_neg(MIN) = MAX, saturating_neg(v) = -v for every other v,
\* and the result is always within MIN..MAX.
C5_SaturatingNeg ==
    call.method = "saturating_neg" =>
        LET v == args.v[call.arg]
        IN  /\ v = MIN => ret = MAX
            /\ v # MIN => ret = -v
            /\ ret \in MIN..MAX

\* saturating_neg has been applied to MIN and returned MAX.
C5_Witness ==
    /\ call.method = "saturating_neg"
    /\ args.v[call.arg] = MIN
    /\ ret = MAX

(* ------------------------------- C6 ----------------------------------- *)

\* C6 as stated: flipping a coordinate twice gives the coordinate back, in
\* its original frame, for every value (components anywhere in MIN..MAX).
C6_FlipInvolution ==
    ops = <<"flip_frame", "flip_frame">> => self = Coord(args.frame, args.v)

\* C6, amended: flipping a coordinate twice gives a coordinate of the
\* original frame that equals the original at every position, except that a
\* component equal to MIN comes back as MIN + 1.
C6_FlipInvolutionUpToMin ==
    ops = <<"flip_frame", "flip_frame">> =>
        /\ self.frame = args.frame
        /\ \A j \in 1..3 :
              self.data[j] = IF args.v[j] = MIN THEN MIN + 1 ELSE args.v[j]

\* A coordinate (MAX, MIN, 0) has been flipped twice.
C6_Witness ==
    /\ ops = <<"flip_frame", "flip_frame">>
    /\ args.v = <<MAX, MIN, 0>>
    /\ self = Coord(args.frame, <<MAX, MIN + 1, 0>>)

(* ------------------------------- C7 ----------------------------------- *)

\* C7: flip_frame of a value v of frame [c0,c1,c2] is a coordinate of the
\* real frame [opposite(c0), opposite(c1), opposite(c2)] whose position i
\* holds the (saturating) negation of v[i]: -v[i], and MAX for MIN;
\* NorthEastDown(1,2,3).flip_frame() is SouthWestUp(-1,-2,-3).
C7_FlipDefinition ==
    call.method = "flip_frame" =>
        /\ ret.frame \in RealFrames
        /\ \A i \in 1..3 :
              /\ components[ret.frame][i] = Opposite(components[self.frame][i])
              /\ ret.data[i] = saturating_neg(self.data[i])
              /\ self.data[i] # MIN => ret.data[i] = -self.data[i]
        /\ self = Coord(NorthEastDown, <<1, 2, 3>>)
              => ret = Coord(SouthWestUp, <<-1, -2, -3>>)

\* NorthEastDown(1,2,3) has been flipped into SouthWestUp(-1,-2,-3).
C7_Witness ==
    /\ call.method = "flip_frame"
    /\ self = Coord(NorthEastDown, <<1, 2, 3>>)
    /\ ret = Coord(SouthWestUp, <<-1, -2, -3>>)

(* ------------------------------- C8 ----------------------------------- *)

\* The canonical unit vector of an axis in the global frame (east, north, up).
UnitVector(axis) ==
    CASE axis = east -> <<1, 0, 0>>
      [] axis = west -> <<-1, 0, 0>>
      [] axis = north -> <<0, 1, 0>>
      [] axis = south -> <<0, -1, 0>>
      [] axis = up -> <<0, 0, 1>>
      [] axis = down -> <<0, 0, -1>>

Cyclic(k) == (k % 3) + 1

\* a x b, component k being a[k+1] * b[k+2] - a[k+2] * b[k+1] (indices cyclic).
CrossProduct(a, b) ==
    [k \in 1..3 |->
        a[Cyclic(k)] * b[Cyclic(Cyclic(k))] - a[Cyclic(Cyclic(k))] * b[Cyclic(k)]]

\* C8: right_handed() of a frame [c0,c1,c2] is true iff the cross product
\* of the unit vectors of c0 and c1 is the unit vector of c2, whatever the
\* instance holds; NorthEastDown and EastNorthUp are right-handed.
C8_Handedness ==
    call.method = "right_handed" =>
        LET c == components[self.frame]
        IN  /\ ret = (CrossProduct(UnitVector(c[1]), UnitVector(c[2]))
                          = UnitVector(c[3]))
            /\ self.frame \in {NorthEastDown, EastNorthUp} => ret = TRUE

\* right_handed() has been called on a NorthEastDown holding non-zero data
\* and returned true.
C8_Witness ==
    /\ call.method = "right_handed"
    /\ self = Coord(NorthEastDown, <<MIN, 2, MAX>>)
    /\ ret = TRUE

(* ------------------------------- C9 ----------------------------------- *)

\* C9: new(v0,v1,v2) stores v_i at position i, so the native getter named
\* after the frame's i-th axis returns v_i and x(), y(), z() return v0, v1,
\* v2, whatever direction that axis is.
C9_ConstructionAndAccessors ==
    /\ self # NoCoord =>
          /\ self.frame = args.frame
          /\ \A i \in 1..3 : self.data[i] = args.v[i]
    /\ call.method = "axis" =>
          \A i \in 1..3 :
              call.arg = components[args.frame][i] => ret = args.v[i]
    /\ call.method = "xyz" => ret = args.v[call.arg]

\* The native getter of the third axis of a frame built from (1, 2, 3) has
\* returned 3.
C9_Witness ==
    /\ ops = <<"new">>
    /\ args.v = <<1, 2, 3>>
    /\ call = [method |-> "axis", arg |-> components[args.frame][3]]
    /\ ret = 3

(* ------------------------------- C10 ---------------------------------- *)

\* C10: converting any of the 50 catalog members to its u8 code and parsing
\* that code back returns Ok of the same member.
C10_OrdinalRoundTrip ==
    /\ Cardinality(VariantIds) = 50
    /\ (enumv # 0 /\ parsed # NoResult) => parsed = Ok(enumv)

\* Other has been converted to 48 and parsed back.
C10_Witness ==
    /\ enumv = Other
    /\ code = 48
    /\ parsed = Ok(Other)

(* ------------------------------- C11 ---------------------------------- *)

\* The u8 codes some catalog member carries.
CatalogCodes == {Variants[k].value : k \in VariantIds}

\* C11: parsing a u8 code that no catalog member carries (every code in
\* 49..254) returns Err(UnknownVariant), never a default frame.
C11_UnknownCodeRejected ==
    /\ U8 \ CatalogCodes = 49..254
    /\ (code \in U8 \ CatalogCodes /\ parsed # NoResult)
          => parsed = ErrUnknownVariant

\* The code 200 has been parsed and rejected.
C11_Witness ==
    /\ code = 200
    /\ parsed = ErrUnknownVariant

(* ------------------------------- C12 ---------------------------------- *)

\* C12 as stated: parsing returns Err(UnknownVariant) for every code that is
\* not the code of one of the 48 real frames, i.e. outside 0..47.
C12_NonRealCodeRejected ==
    (code \in U8 \ (0..47) /\ parsed # NoResult) => parsed = ErrUnknownVariant

\* C12, amended: parsing returns Err(UnknownVariant) exactly for the codes
\* outside 0..48 other than 255; 48 parses to Other and 255 to Undefined,
\* and a code in 0..47 to a real frame.
C12_NonCatalogCodeRejected ==
    (code \in U8 /\ parsed # NoResult) =>
        /\ parsed = ErrUnknownVariant <=> code \notin (0..48) \cup {255}
        /\ code = 48 => parsed = Ok(Other)
        /\ code = 255 => parsed = Ok(Undefined)
        /\ code \in 0..47 => parsed.tag = "Ok" /\ parsed.variant \in RealFrames

\* The raw code 255 has been parsed to Undefined.
C12_Witness ==
    /\ enumv = 0
    /\ code = 255
    /\ parsed = Ok(Undefined)

(* ------------------------------- C13 ---------------------------------- *)

\* C13: the codes of the catalog are pairwise distinct; the 48 real frames
\* carry exactly the codes 0..47, Other carries 48 and Undefined 255.
C13_OrdinalAssignment ==
    /\ \A f \in VariantIds : \A g \in VariantIds :
          f # g => Variants[f].value # Variants[g].value
    /\ Cardinality(RealFrames) = 48
    /\ (enumv # 0 /\ code # -1) =>
          /\ enumv \in RealFrames <=> code \in 0..47
          /\ enumv = Other <=> code = 48
          /\ enumv = Undefined <=> code = 255
    /\ \A c \in 0..47 : \E f \in RealFrames : Variants[f].value = c

\* Undefined has been converted to its code 255.
C13_Witness ==
    /\ enumv = Undefined
    /\ code = 255

(* ------------------------------- C14 ---------------------------------- *)

\* The mutually exclusive pair an axis belongs to.
PairOf(axis) == CHOOSE pair \in MutuallyExclusivePairs : axis \in pair

\* The ordered triples that take one axis from each of the three pairs.
ValidTriples ==
    { t \in Axes \X Axes \X Axes :
         /\ PairOf(t[1]) # PairOf(t[2])
         /\ PairOf(t[1]) # PairOf(t[3])
         /\ PairOf(t[2]) # PairOf(t[3]) }

\* C14: the real frames of the catalog are exactly the 48 ordered triples
\* that take one axis from each of {north,south}, {east,west}, {up,down}:
\* each such triple is the decomposition of exactly one real frame, and no
\* real frame repeats an axis or holds an axis together with its opposite.
C14_CatalogCompleteness ==
    /\ Cardinality(ValidTriples) = 48
    /\ Cardinality(RealFrames) = 48
    /\ {components[F] : F \in RealFrames} = ValidTriples
    /\ call.method = "split_variant_name_into_components" =>
          /\ ret \in ValidTriples
          /\ \A F \in RealFrames : components[F] = ret => F = args.frame
          /\ \A i \in 1..3 : \A j \in 1..3 :
                i # j => ret[i] # ret[j] /\ ret[i] # Opposite(ret[j])

\* The name SouthWestUp has been split into south, west, up.
C14_Witness ==
    /\ args.frame = SouthWestUp
    /\ call.method = "split_variant_name_into_components"
    /\ ret = <<south, west, up>>

(* ------------------------------- C15 ---------------------------------- *)

\* The unit vector of position i in a frame's own component order.
OwnUnitVector(i) == [k \in 1..3 |-> IF k = i THEN 1 ELSE 0]

\* C15 as stated: for every real frame x_axis(), y_axis() and z_axis()
\* return [1,0,0], [0,1,0] and [0,0,1], the unit vectors of positions 0, 1
\* and 2 in the frame's own component order.
C15_OwnOrderBaseVectors ==
    call.method = "base_axis" => ret = OwnUnitVector(call.arg)

\* C15, amended: the vector returned for positional axis i is chosen by
\* the direction of that axis in the global east-north-up frame, not by i:
\* x_axis() is [1,0,0] only when axis 0 is east, y_axis() is [0,1,0] only
\* when axis 1 is north and z_axis() is [0,0,1] only when axis 2 is up;
\* NorthEastDown has [0,1,0], [1,0,0], [0,0,-1].
C15_GlobalOrderBaseVectors ==
    call.method = "base_axis" =>
        /\ ret = OwnUnitVector(call.arg)
              <=> components[args.frame][call.arg] = <<east, north, up>>[call.arg]
        /\ args.frame = NorthEastDown =>
              ret = <<<<0, 1, 0>>, <<1, 0, 0>>, <<0, 0, -1>>>>[call.arg]

\* NorthEastDown::z_axis() has returned [0, 0, -1].
C15_Witness ==
    /\ args.frame = NorthEastDown
    /\ call = [method |-> "base_axis", arg |-> 3]
    /\ ret = <<0, 0, -1>>

(* ------------------------------- C16 ---------------------------------- *)

\* C16: the base vector returned for positional axis i is the canonical
\* global unit vector of the frame's i-th axis, the one the handedness test
\* uses, so it has exactly one non-zero entry, of magnitude one.
C16_BaseVectorsAreUnitVectors ==
    call.method = "base_axis" =>
        /\ ret = axis_vec(components[args.frame][call.arg])
        /\ Cardinality({k \in 1..3 : ret[k] # 0}) = 1
        /\ \A k \in 1..3 : ret[k] \in {-1, 0, 1}

(* ------------------------------- C17 ---------------------------------- *)

\* What the three named accessors read on the coordinate self.
Readings(a, b, c) ==
    <<accessor(self.frame, a, self.data),
      accessor(self.frame, b, self.data),
      accessor(self.frame, c, self.data)>>

C18_FromSlice ==
    ops = <<"from_slice">> =>
        IF Len(args.v) # 3
        THEN self = NoCoord /\ ret = LengthMismatch
        ELSE /\ call = NoCall => ret = NoRet
             /\ self.frame = args.frame
             /\ Len(self.data) = 3
             /\ \A i \in 1..3 : self.data[i] = args.v[i]

\* from_slice has refused a slice of length 4.
C18_Witness ==
    /\ ops = <<"from_slice">>
    /\ Len(args.v) = 4
    /\ self = NoCoord
    /\ ret = LengthMismatch

(* ------------------------------- C19 ---------------------------------- *)

\* The part of the interop that holds for arrays in both directions and
\* for tuples out of a coordinate: positions are kept, and an array turned
\* into a coordinate and back is the original array.
ArrayInterop ==
    /\ ops \in {<<"from_array">>, <<"from_array_impl">>} =>
          self = Coord(args.frame, args.v)
    /\ call.method = "into_array" =>
          /\ ret.kind = "array"
          /\ Len(ret.items) = 3
          /\ \A i \in 1..3 : ret.items[i] = self.data[i]
          /\ ops = <<"from_array_impl">> => ret = Array(args.v)
    /\ call.method = "into_tuple" =>
          /\ ret.kind = "tuple"
          /\ Len(ret.items) = 3
          /\ \A i \in 1..3 : ret.items[i] = self.data[i]

\* C19 as stated: every real frame's coordinate converts both to and from
\* a 3-element array and both to and from a 3-tuple, position i mapping to
\* element i, so that array -> coordinate -> array and tuple -> coordinate
\* -> tuple give back the original.
C19_ArrayTupleInterop ==
    /\ ArrayInterop
    /\ ops = <<"from_tuple_impl">> => self = Coord(args.frame, args.v)

\* C19, amended: a coordinate converts to and from a 3-element array and
\* to, but not from, a 3-tuple; position i maps to element i, and an array
\* converted into a coordinate and back is the original array.
C19_ArrayInteropTupleOut ==
    /\ ArrayInterop
    /\ ops = <<"from_tuple_impl">> => self = NoCoord /\ ret = NoImpl

\* The array [MIN, 0, MAX] went into a coordinate and came back out.
C19_Witness ==
    /\ args.v = <<MIN, 0, MAX>>
    /\ ops = <<"from_array_impl">>
    /\ call.method = "into_array"
    /\ ret = Array(<<MIN, 0, MAX>>)

(* ------------------------------- C20 ---------------------------------- *)

\* The exact integer result of an operation; for a division, the quotient
\* whose remainder is smaller than the divisor and has the dividend's sign.
Exact(op, a, b) ==
    CASE op = "add" -> a + b
      [] op = "sub" -> a - b
      [] op = "mul" -> a * b
      [] op = "div" ->
            CHOOSE q \in (0 - Pow2(Width))..Pow2(Width) :
                LET r == a - q * b
                IN  /\ abs(r) < abs(b)
                    /\ r = 0 \/ (r > 0) = (a > 0)

\* ret is the elementwise result of op on self.data and the triple rhs in
\* the frame of self: exact where every element is in range; a panic on a
\* zero divisor or a quotient out of range; a panic, or the elements
\* reduced modulo 2^Width, where a sum, difference or product overflows.
Elementwise(op, rhs) ==
    IF op = "div" /\ \E i \in 1..3 : rhs[i] = 0 THEN ret = Panicked
    ELSE LET exact == [i \in 1..3 |-> Exact(op, self.data[i], rhs[i])]
         IN  IF \A i \in 1..3 : exact[i] \in Scalar
             THEN ret = Coord(self.frame, exact)
             ELSE \/ ret = Panicked
                  \/ /\ op # "div"
                     /\ ret.frame = self.frame
                     /\ Len(ret.data) = 3
                     /\ \A i \in 1..3 :
                           /\ ret.data[i] \in Scalar
                           /\ (ret.data[i] - exact[i]) % Pow2(Width) = 0

\* The operators that exist: all four with a scalar, add and subtract with
\* a coordinate.
OfferedArithmetic ==
    /\ (call.method \in ScalarOperators /\ call.arg.rhs = "scalar") =>
          Elementwise(call.method, <<call.arg.value, call.arg.value, call.arg.value>>)
    /\ (call.method \in CoordinateOperators /\ call.arg.rhs = "coordinate") =>
          Elementwise(call.method, call.arg.value)

\* C20 as stated: add, subtract, scale and divide are each offered with a
\* scalar right-hand side and with a same-frame coordinate right-hand side,
\* elementwise, with the result in the same frame.
C20_ElementwiseArithmetic ==
    /\ OfferedArithmetic
    /\ (call.method \in {"mul", "div"} /\ call.arg.rhs = "coordinate") =>
          ret # NoOperatorImpl

\* C20, amended: add and subtract are offered with a scalar and with a
\* same-frame coordinate right-hand side, scale and divide with a scalar
\* right-hand side only; position i of the result is op(self[i], s), resp.
\* op(self[i], r[i]), by the scalar type's own operation, in the same frame.
C20_ElementwiseArithmeticOffered ==
    /\ OfferedArithmetic
    /\ (call.method \in {"mul", "div"} /\ call.arg.rhs = "coordinate") =>
          ret = NoOperatorImpl

\* SouthWestUp(-1, 0, 1) - SouthWestUp(1, 0, -1) is SouthWestUp(-2, 0, 2).
C20_Witness ==
    /\ self = Coord(SouthWestUp, <<-1, 0, 1>>)
    /\ call.method = "sub"
    /\ call.arg.rhs = "coordinate"
    /\ call.arg.value = <<1, 0, -1>>
    /\ ret = Coord(SouthWestUp, <<-2, 0, 2>>)

(* ------------------------------- C21 ---------------------------------- *)

\* Nothing came out of the expansion.
NothingGenerated == ret.panic # "" /\ ret.types = {} /\ ret.conversions = {}

\* C21: generation fails, with nothing generated, for any non-sentinel
\* identifier that does not split at its upper-case boundaries into exactly
\* three tokens, or that has a token other than north, south, east, west,
\* up, down.
C21_MalformedNameRejected ==
    (call.method = "derive_coordinate_frame" /\ args.v # <<>>) =>
        ((Len(args.v) # 3 \/ \E i \in DOMAIN args.v : args.v[i] \notin Axes)
            => NothingGenerated)

\* The expansion for an enum holding NorthEastFoo has panicked in the pair
\* lookup.
C21_Witness ==
    /\ args.v = <<north, east, foo>>
    /\ call.method = "derive_coordinate_frame"
    /\ ret.panic = FailedPair
    /\ ret.types = {}

(* ------------------------------- C22 ---------------------------------- *)

\* C22: the generator fails for every identifier of three known axis
\* tokens that are not drawn from three different mutually exclusive pairs
\* (NorthSouthUp, NorthNorthUp), and emits no coordinate type for it.
C22_NonOrthogonalTripleRejected ==
    (call.method = "derive_coordinate_frame" /\ Len(args.v) = 3) =>
        (((\A i \in 1..3 : args.v[i] \in Axes) /\ args.v \notin ValidTriples)
            => NothingGenerated)

\* The expansion for an enum holding NorthSouthUp has panicked.
C22_Witness ==
    /\ args.v = <<north, south, up>>
    /\ ~args.lower_first
    /\ call.method = "derive_coordinate_frame"
    /\ ret.panic = Unreachable
    /\ ret.types = {}

(* ------------------------------- C23 ---------------------------------- *)

\* C23: for the catalog the generator emits a coordinate type for each of
\* the 48 real frames and a direct conversion for exactly the ordered pairs
\* of distinct real frames, 48 x 47 = 2256 of them; nothing is generated
\* for Other and Undefined, which are catalog members with an ordinal only.
C23_ConversionGraph ==
    /\ Other \in VariantIds /\ Undefined \in VariantIds
    /\ Variants[Other].value = 48 /\ Variants[Undefined].value = 255
    /\ (call.method = "derive_coordinate_frame" /\ args.v = <<>>) =>
          /\ ret.panic = ""
          /\ ret.types = RealFrames
          /\ ret.conversions = {p \in RealFrames \X RealFrames : p[1] # p[2]}
          /\ Cardinality(ret.conversions) = 2256
          /\ \A p \in ret.conversions :
                {p[1], p[2]} \cap {Other, Undefined} = {}

\* The macro has expanded the catalog.
C23_Witness ==
    /\ args.v = <<>>
    /\ call.method = "derive_coordinate_frame"
    /\ ret.panic = ""
    /\ <<NorthEastDown, EastNorthUp>> \in ret.conversions

(* ------------------------------- C24 ---------------------------------- *)

\* The three native axes of F, in any order.
NativeAxes(F) == {components[F][i] : i \in 1..3}

\* ret holds the components of self rearranged by axis name, none negated.
PurePermutation ==
    \A i \in 1..3 : \A j \in 1..3 :
        components[ret.frame][j] = components[self.frame][i]
            => ret.data[j] = self.data[i]

\* C24: for every real frame whose native axes are north, east and down,
\* NorthEastDown included, to_ned is generated in the specialised form that
\* does not require saturating negation of the scalar, and likewise to_enu
\* for every frame whose native axes are east, north and up, EastNorthUp
\* included; the result is a pure permutation of the input, so a MIN
\* component is carried over unchanged.
C24_SpecialisedCanonicalConversion ==
    /\ (call.method = "to_ned" /\ NativeAxes(self.frame) = {north, east, down}) =>
          to_ned_const[self.frame] /\ PurePermutation
    /\ (call.method = "to_enu" /\ NativeAxes(self.frame) = {east, north, up}) =>
          to_enu_const[self.frame] /\ PurePermutation

(* ------------------------------- C25 ---------------------------------- *)

\* The position of a native axis of F.
PositionOf(F, name) == CHOOSE i \in 1..3 : components[F][i] = name

\* data is the starting value with v at position i and nothing else changed.
OnlyPositionSet(data, i, v) ==
    /\ Len(data) = 3
    /\ data[i] = v
    /\ \A k \in 1..3 : k # i => data[k] = args.v[k]

\* C25: with_<c_i>(v) and a write of v through <c_i>_mut(), x_mut(), y_mut()
\* or z_mut() set position i to v and leave the other two positions as they
\* were, after which the native getter of c_i returns v; the getters, the
\* conversions, to_ned, to_enu and flip_frame leave the receiver unchanged.
C25_PerAxisWrites ==
    /\ call.method = "with" =>
          LET i == PositionOf(self.frame, call.arg.axis)
          IN  /\ ret.frame = self.frame
              /\ OnlyPositionSet(ret.data, i, call.arg.value)
              /\ accessor(ret.frame, call.arg.axis, ret.data) = call.arg.value
              /\ self = Coord(args.frame, args.v)
    /\ call.method = "axis_mut" =>
          LET i == PositionOf(self.frame, call.arg.axis)
          IN  /\ self.frame = args.frame
              /\ OnlyPositionSet(self.data, i, call.arg.value)
              /\ accessor(self.frame, call.arg.axis, self.data) = call.arg.value
    /\ call.method = "xyz_mut" =>
          /\ self.frame = args.frame
          /\ OnlyPositionSet(self.data, call.arg.position, call.arg.value)
          /\ accessor(self.frame, components[self.frame][call.arg.position], self.data)
                = call.arg.value
    /\ call.method \in {"axis", "xyz", "from", "flip_frame", "to_ned", "to_enu"} =>
          self = Coord(args.frame, args.v)

\* NorthEastDown(MIN, MIN, MIN) has had its down component set to MAX
\* through down_mut().
C25_Witness ==
    /\ args.frame = NorthEastDown
    /\ args.v = <<MIN, MIN, MIN>>
    /\ call.method = "axis_mut"
    /\ call.arg.axis = down
    /\ self = Coord(NorthEastDown, <<MIN, MIN, MAX>>)

(* ------------------------------- C26 ---------------------------------- *)

\* The negation of a component: -x, and MAX for MIN.
Negated(x) == IF x = MIN THEN MAX ELSE 0 - x

\* The coordinate of frame C that names the same vector as v of frame A.
Direct(A, C, v) ==
    [j \in 1..3 |->
        LET i == CHOOSE k \in 1..3 :
                     components[A][k] \in {components[C][j], Opposite(components[C][j])}
        IN  IF components[A][i] = components[C][j] THEN v[i] ELSE Negated(v[i])]

\* C26 as stated: for pairwise distinct real frames A, B, C and every value
\* v of A, components anywhere in MIN..MAX, converting A to B and then B to
\* C gives the coordinate that converting A to C directly gives.
C26_PathIndependence ==
    (ops = <<"from", "from">> /\ self.frame # args.frame)
        => self.data = Direct(args.frame, self.frame, args.v)

\* C26, amended: converting A to B and then B to C gives the coordinate of
\* the direct conversion A to C for every value v of A that has no MIN
\* component; where v has a MIN component the two results agree except that
\* the two-step result holds MIN + 1 where the direct one holds MIN.
C26_PathIndependenceUpToMin ==
    (ops = <<"from", "from">> /\ self.frame # args.frame) =>
        LET direct == Direct(args.frame, self.frame, args.v)
        IN  /\ \A j \in 1..3 :
                  \/ self.data[j] = direct[j]
                  \/ direct[j] = MIN /\ self.data[j] = MIN + 1
            /\ (\A i \in 1..3 : args.v[i] # MIN) => self.data = direct

\* NorthEastDown(MIN + 1, 0, MAX) has gone through another frame to
\* EastNorthUp and arrived as the direct conversion (0, MIN + 1, MIN + 1).
C26_Witness ==
    /\ args = [frame |-> NorthEastDown, v |-> <<MIN + 1, 0, MAX>>]
    /\ ops = <<"from", "from">>
    /\ self = Coord(EastNorthUp, <<0, MIN + 1, MIN + 1>>)

(* ------------------------------- C27 ---------------------------------- *)

\* C27: for a starting value without a MIN component, after any sequence
\* of pairwise conversions and flip_frame calls the coordinate equals the
\* starting one whenever the frame is the starting frame, and no step
\* produces a MIN component.
C27_NoMinStaysExact ==
    (\A i \in 1..3 : args.v[i] # MIN) =>
        /\ \A j \in 1..3 : self.data[j] # MIN
        /\ self.frame = args.frame => self.data = args.v
        /\ self.data = Direct(args.frame, self.frame, args.v)

\* NorthEastDown(MAX, 0, MIN + 1) is back in its frame, unchanged, and the
\* step that brought it back was a flip.
C27_Witness ==
    /\ args = [frame |-> NorthEastDown, v |-> <<MAX, 0, MIN + 1>>]
    /\ ops = <<"flip_frame">>
    /\ self = Coord(NorthEastDown, <<MAX, 0, MIN + 1>>)

(* ------------------------------- C28 ---------------------------------- *)

\* C28: flip_frame always changes handedness: the target frame of F's
\* flip_frame is right-handed iff F is left-handed.
C28_FlipChangesHandedness ==
    /\ \A F \in RealFrames :
          /\ flipped_ident[F] \in RealFrames
          /\ right_handed[flipped_ident[F]] <=> ~right_handed[F]
    /\ call.method = "flipped_ident" =>
          /\ ret \in RealFrames
          /\ handedness_impl[ret] = "RightHanded"
                <=> handedness_impl[args.frame] = "LeftHanded"

\* The flip target of the right-handed NorthEastDown is the left-handed
\* SouthWestUp.
C28_Witness ==
    /\ args.frame = NorthEastDown
    /\ call.method = "flipped_ident"
    /\ ret = SouthWestUp
    /\ right_handed[NorthEastDown]
    /\ ~right_handed[SouthWestUp]

(* ------------------------------- C29 ---------------------------------- *)

\* An axis name with its first letter in upper case.
Capitalised(axis) ==
    <<UPPERCASE[CHOOSE m \in DOMAIN LOWERCASE : LOWERCASE[m] = axis[1]]>>
        \o SubSeq(axis, 2, Len(axis))

\* The name spelled by the opposites of the three axes of F, in order.
OppositeName(F) ==
    Capitalised(Opposite(components[F][1]))
        \o Capitalised(Opposite(components[F][2]))
        \o Capitalised(Opposite(components[F][3]))

\* C29: for every real frame F the name built from the opposites of F's
\* three axes, in the same order, is the name of a real catalog frame other
\* than F, and the flip target of that frame is F again.
C29_FlipTargetClosure ==
    call.method = "flipped_ident" =>
        /\ ret \in RealFrames
        /\ ret # args.frame
        /\ Variants[ret].name = OppositeName(args.frame)
        /\ flipped_ident[ret] = args.frame

\* The flip target of EastNorthUp is the catalog's WestSouthDown, whose
\* own flip target is EastNorthUp.
C29_Witness ==
    /\ args.frame = EastNorthUp
    /\ call.method = "flipped_ident"
    /\ Variants[ret].name = <<"W","e","s","t","S","o","u","t","h","D","o","w","n">>
    /\ flipped_ident[ret] = EastNorthUp

(* ------------------------------- C30 ---------------------------------- *)

\* The real frame whose axes are those of F with positions i and j exchanged.
Exchanged(F, i, j) ==
    CHOOSE G \in RealFrames :
        components[G] = [k \in 1..3 |->
                            IF k = i THEN components[F][j]
                            ELSE IF k = j THEN components[F][i]
                            ELSE components[F][k]]

\* C30: every real frame gets exactly one of the marker traits RightHanded
\* and LeftHanded, the one that agrees with its right_handed() value; 24 of
\* the 48 real frames are right-handed and 24 left-handed; exchanging any
\* two axes of a frame gives a frame of the opposite handedness.
C30_HandednessPartition ==
    /\ Cardinality({F \in RealFrames : right_handed[F]}) = 24
    /\ Cardinality({F \in RealFrames : ~right_handed[F]}) = 24
    /\ call.method = "handedness" =>
          /\ ret.marker \in {"RightHanded", "LeftHanded"}
          /\ ret.marker = "RightHanded" <=> ret.right_handed
          /\ ret.right_handed =
                (CrossProduct(UnitVector(components[args.frame][1]),
                              UnitVector(components[args.frame][2]))
                    = UnitVector(components[args.frame][3]))
          /\ \A i \in 1..3 : \A j \in 1..3 :
                i # j => right_handed[Exchanged(args.frame, i, j)] # ret.right_handed

\* EastNorthUp has been given the marker RightHanded.
C30_Witness ==
    /\ args.frame = EastNorthUp
    /\ call.method = "handedness"
    /\ ret = [right_handed |-> TRUE, marker |-> "RightHanded"]

====
